---- MODULE Spec2Model ----
(***************************************************************************)
(* Model of the PDF report downloader (Main.py, models/PDClient.py,        *)
(* models/Report.py, models/Downloader.py, utils/utils.py).                *)
(*                                                                         *)
(* The main thread parses the catalogue rows into PDFReport objects,       *)
(* submits one download_report task per report to a thread pool of         *)
(* num_workers threads, drains the completions and logs the totals.        *)
(* Each task walks its candidate URLs; every failed attempt goes through   *)
(* handle_download_exception, whose reads and writes of the shared         *)
(* counters are separate steps because the code takes no lock.             *)
(***************************************************************************)
EXTENDS Integers, Sequences, FiniteSets, TLC

(***************************************************************************)
(* Bounds of the model.                                                    *)
(***************************************************************************)
\* rows of the catalogue in the pool specification
NumRows == 4
\* Downloader.num_workers (configurable: Main passes 100, the default is 5)
NumWorkers == 2
\* failing responses the network serves in the pool specification
MaxFaults == 2

(***************************************************************************)
(* Program constants.                                                      *)
(***************************************************************************)
\* download_report(..., retries_left: int = 3)
DefaultRetries == 3

\* faultsLeft value of an environment that may fail without limit
Unlimited == 0 - 1

(***************************************************************************)
(* URLs.  A URL string is a sequence of tokens; None and the empty string  *)
(* (both falsy in Python) are the empty sequence.                          *)
(***************************************************************************)
None == <<>>

UrlOk == <<"http:", "//", "host", "/doc">>
UrlBare == <<"host", "/doc">>
UrlNoHost == <<"http:", "/doc">>
UrlNan == <<"nan">>

\* "http" in url
ContainsHttp(url) == \E k \in 1..Len(url) : url[k] = "http:"

\* "nan" in str(backup_url)
ContainsNan(url) == \E k \in 1..Len(url) : url[k] = "nan"

\* f"http://{...}"
PrependScheme(url) == <<"http:", "//">> \o url

\* urlparse(url).netloc: what follows "//" after the optional scheme, up to
\* the next "/"
Netloc(url) ==
    LET rest == IF Len(url) > 0 /\ url[1] = "http:" THEN Tail(url) ELSE url
    IN  IF Len(rest) >= 2 /\ rest[1] = "//" /\ rest[2] \notin {"//", "/doc"}
        THEN <<rest[2]>>
        ELSE <<>>

\* PDFReport.is_valid_url(self, url): the branch for a url without "http"
\* evaluates self.url, an attribute PDFReport never sets, so it raises
\* AttributeError; otherwise the netloc of self.pdf_url (not of url) decides.
is_valid_url(pdf_url, url) ==
    IF ~ContainsHttp(url)
    THEN [raised |-> TRUE, valid |-> FALSE]
    ELSE [raised |-> FALSE, valid |-> Netloc(pdf_url) # <<>>]

\* PDFReport.validate(self): the pdf_url it leaves, or that it raised
validate(pdf_url, backup_url) ==
    LET p == is_valid_url(pdf_url, pdf_url)
        b == is_valid_url(pdf_url, backup_url)
    IN  IF p.raised THEN [raised |-> TRUE, pdf_url |-> pdf_url]
        ELSE IF p.valid THEN [raised |-> FALSE, pdf_url |-> pdf_url]
        ELSE IF backup_url = None THEN [raised |-> FALSE, pdf_url |-> pdf_url]
        ELSE IF b.raised THEN [raised |-> TRUE, pdf_url |-> pdf_url]
        ELSE IF b.valid THEN [raised |-> FALSE, pdf_url |-> backup_url]
        ELSE [raised |-> FALSE, pdf_url |-> pdf_url]

\* PDFReport.__init__(brnum, pdf_url, backup_url)
PDFReport(brnum, pdf_url, backup_url) ==
    LET backup == IF ContainsNan(backup_url) THEN None ELSE backup_url
        v == validate(pdf_url, backup)
    IN  [raised |-> v.raised,
         report |-> [brnum |-> brnum, pdf_url |-> v.pdf_url, backup_url |-> backup]]

(***************************************************************************)
(* State.                                                                  *)
(***************************************************************************)
VARIABLES
    rows,                  \* the catalogue rows (BRnum, Pdf_URL, Report Html Address)
    parsed,                \* rows parse_excel_to_reports has gone through
    pdf_reports,           \* the reports constructed so far / Downloader.pdf_reports
    mainpc,                \* main thread: "parse", "pool", "done"
    completed,             \* the progress bar's count
    yielded,               \* futures the as_completed loop has gone through
    pc,                    \* per task: where its download_report stands
    idx,                   \* per task: index into urls_to_try
    verify_ssl,            \* per task: download_report's verify_ssl
    retries_left,          \* per task: download_report's retries_left
    result,                \* per task: the result key being recorded ("none": no call)
    tmp,                   \* per task: the counter value it has loaded (0: none)
    data,                  \* per task: the snapshot log_status_count holds
    results,               \* Downloader.results (0: key absent)
    csv,                   \* rows of output/status_codes_count.csv
    status,                \* per BRnum: its rows in output/downloaded_reports.csv
    files,                 \* per BRnum: downloads/<BRnum>.pdf
    successful_downloads,
    failed_downloads,
    net,                   \* the failures the servers of this run produce
    faultsLeft,            \* failing responses the network may still serve
    hist,                  \* per task: its dispatches (starts), the passes over
                           \* its candidates begun at candidate 0, its attempts
                           \* and the last of them
    calls                  \* history of the calls on the shared counters

vars == <<rows, parsed, pdf_reports, mainpc, completed, yielded, pc, idx, verify_ssl,
          retries_left, result, tmp, data, results, csv, status, files,
          successful_downloads, failed_downloads, net, faultsLeft, hist, calls>>

mainVars == <<rows, net, parsed, pdf_reports, mainpc, completed, yielded>>
localVars == <<result, tmp, data>>
sharedVars == <<results, csv, successful_downloads, failed_downloads>>

\* result keys: a status code, or the name log_status_count is given
Keys == {"404", "SSL Error", "Invalid Content-Type", "ConnectionError", "InvalidURL"}

NoCounts == [k \in Keys |-> 0]

Tasks == DOMAIN pc

\* urls_to_try of download_report
urls_to_try(report) ==
    IF report.backup_url # None
    THEN <<report.pdf_url, report.backup_url>>
    ELSE <<report.pdf_url>>

Report(t) == pdf_reports[t]

Running == {t \in Tasks : pc[t] \notin {"queued", "done", "raised"}}

\* a future whose call raised is never yielded by as_completed
FinishedNoRaise(t) == pc[t] = "done"

Finished(t) == pc[t] \in {"done", "raised"}

(***************************************************************************)
(* The network.  A URL without a network location never reaches a server:  *)
(* requests raises before connecting.  Any other fetch ends in one of the  *)
(* outcomes download_report tells apart.  The retries of the HTTPAdapter   *)
(* (500, 502, 503, 504) happen inside session.get: an outcome here is the  *)
(* final one.  The response is bound before raise_for_status runs, so the  *)
(* "N/A" branch of the HTTPError clause is never taken.                    *)
(*                                                                         *)
(* net and faultsLeft restrict the servers of a run: only failures in net  *)
(* occur, and at most faultsLeft of them (Unlimited: any number).  The     *)
(* worker threads share results, the two totals and the csv file without   *)
(* a lock, so each load and each store of them is a step of its own.       *)
(***************************************************************************)
\* final responses that raise_for_status or the Content-Type check reject,
\* and exceptions of the connection
Failures == {"404", "html", "conn", "tls"}

\* the body iter_content delivers with a 200 application/pdf response
Bodies == {"bytes", "nothing"}

\* the servers of the pool specification: certificate failures, 404 and
\* empty bodies
PoolNet == {"404", "tls", "nothing"}

\* the servers of the race specification: two failures that are recorded
\* under different keys, certificate failures and empty bodies
RaceNet == {"404", "html", "tls", "nothing"}

\* the network may serve this failure now
CanFail(outcome) == outcome \in net /\ faultsLeft # 0

Spend == IF faultsLeft > 0 THEN faultsLeft - 1 ELSE faultsLeft

\* the key handle_download_exception is given by the except clause
KeyOf(outcome) ==
    CASE outcome = "404" -> "404"
      [] outcome = "html" -> "Invalid Content-Type"
      [] outcome = "tls" -> "SSL Error"
      [] outcome = "conn" -> "ConnectionError"
      [] outcome = "invalid" -> "InvalidURL"

(***************************************************************************)
(* Initial states.                                                         *)
(***************************************************************************)
Row(id, pdf, backup) == [id |-> id, pdf |-> pdf, backup |-> backup]

\* the rows of the pool specification: the first row's Pdf_URL lacks the
\* scheme; the others alternate between a report without backup (the
\* Report Html Address cell is empty, NaN) and a report with one
PoolRow(r) ==
    IF r = 1 THEN Row(r, UrlBare, UrlOk)
    ELSE IF r % 2 = 0 THEN Row(r, UrlOk, UrlNan)
    ELSE Row(r, UrlOk, UrlOk)

\* the rows of the single-item specification
ItemUrls == {UrlOk, UrlBare, UrlNoHost, UrlNan, None}

InitRest ==
    /\ parsed = 0
    /\ pdf_reports = <<>>
    /\ mainpc = "parse"
    /\ completed = 0
    /\ yielded = 0
    /\ pc = <<>>
    /\ idx = <<>>
    /\ verify_ssl = <<>>
    /\ retries_left = <<>>
    /\ result = <<>>
    /\ tmp = <<>>
    /\ data = <<>>
    /\ results = NoCounts
    /\ csv = NoCounts
    /\ status = [r \in 1..Len(rows) |-> [n |-> 0, yes |-> 0, cause |-> "none"]]
    /\ files = [r \in 1..Len(rows) |-> "none"]
    /\ successful_downloads = 0
    /\ failed_downloads = 0
    /\ hist = <<>>
    /\ calls = [recorded |-> NoCounts, failIncs |-> 0, succIncs |-> 0]

Init ==
    /\ rows = [r \in 1..NumRows |-> PoolRow(r)]
    /\ net = PoolNet
    /\ faultsLeft = MaxFaults
    /\ InitRest

\* a dropped row and two reports whose failures may have different keys
InitRace ==
    /\ rows = <<PoolRow(1), PoolRow(2), PoolRow(3)>>
    /\ net = RaceNet
    /\ faultsLeft = MaxFaults
    /\ InitRest

InitItem ==
    /\ \E p \in ItemUrls, b \in ItemUrls : rows = <<Row(1, p, b)>>
    /\ net = Failures \cup {"nothing"}
    /\ faultsLeft = Unlimited
    /\ InitRest

(***************************************************************************)
(* Main thread: PDClient.parse_excel_to_reports, Downloader.set_reports    *)
(* and Downloader.download.                                                *)
(***************************************************************************)
\* one iteration of the loop of parse_excel_to_reports whose PDFReport(...)
\* returns
ConstructReport ==
    /\ mainpc = "parse"
    /\ parsed < Len(rows)
    /\ LET row == rows[parsed + 1]
           made == PDFReport(row.id, row.pdf, row.backup)
       IN  /\ ~made.raised
           /\ pdf_reports' = Append(pdf_reports, made.report)
    /\ parsed' = parsed + 1
    /\ UNCHANGED <<rows, net, mainpc, completed, yielded, pc, idx, verify_ssl, retries_left,
                   localVars, sharedVars, status, files, faultsLeft, hist, calls>>

\* one iteration whose PDFReport(...) raises: except Exception: continue
DropRow ==
    /\ mainpc = "parse"
    /\ parsed < Len(rows)
    /\ LET row == rows[parsed + 1]
       IN  PDFReport(row.id, row.pdf, row.backup).raised
    /\ parsed' = parsed + 1
    /\ UNCHANGED <<rows, net, pdf_reports, mainpc, completed, yielded, pc, idx, verify_ssl,
                   retries_left, localVars, sharedVars, status, files,
                   faultsLeft, hist, calls>>

NoAttempt == [i |-> 0, url |-> None, verify |-> TRUE, res |-> "none"]

\* set_reports, then download() submitting download_report(report) for
\* every report: verify_ssl and retries_left take their defaults
Submit ==
    /\ mainpc = "parse"
    /\ parsed = Len(rows)
    /\ mainpc' = "pool"
    /\ pc' = [t \in 1..Len(pdf_reports) |-> "queued"]
    /\ idx' = [t \in 1..Len(pdf_reports) |-> 0]
    /\ verify_ssl' = [t \in 1..Len(pdf_reports) |-> TRUE]
    /\ retries_left' = [t \in 1..Len(pdf_reports) |-> DefaultRetries]
    /\ result' = [t \in 1..Len(pdf_reports) |-> "none"]
    /\ tmp' = [t \in 1..Len(pdf_reports) |-> 0]
    /\ data' = [t \in 1..Len(pdf_reports) |-> NoCounts]
    /\ hist' = [t \in 1..Len(pdf_reports) |->
                  [starts |-> 0, passes |-> 0, attempts |-> 0,
                   last |-> NoAttempt]]
    /\ UNCHANGED <<rows, net, parsed, pdf_reports, completed, yielded, sharedVars, status,
                   files, faultsLeft, calls>>

(***************************************************************************)
(* Worker threads: Downloader.download_report.                             *)
(***************************************************************************)
\* a pool that starts a thread for every submitted task
WorkerFreeUnbounded == TRUE

\* ThreadPoolExecutor(max_workers=self.num_workers): a thread is free
WorkerFree == Cardinality(Running) < NumWorkers

\* a worker thread takes the oldest queued task and calls download_report
Start(t) ==
    /\ mainpc = "pool"
    /\ pc[t] = "queued"
    /\ \A u \in Tasks : u < t => pc[u] # "queued"
    /\ WorkerFree
    /\ pc' = [pc EXCEPT ![t] = "try"]
    /\ hist' = [hist EXCEPT ![t].starts = @ + 1, ![t].passes = @ + 1]
    /\ UNCHANGED <<mainVars, idx, verify_ssl, retries_left, localVars,
                   sharedVars, status, files, faultsLeft, calls>>

Url(t) == urls_to_try(Report(t))[idx[t] + 1]

Attempted(t, res) ==
    [hist EXCEPT ![t].attempts = @ + 1,
                 ![t].last = [i |-> idx[t], url |-> Url(t),
                              verify |-> verify_ssl[t], res |-> res]]

\* where download_report goes after the body of its for loop ends without a
\* return, for n candidate URLs, at candidate i with r retries left: the
\* next candidate, else the call download_report(retries_left - 1), else the
\* end of the function
\* the retry test is retries_left >= 0
NextStepExtraRound(n, i, r) ==
    IF i + 1 < n THEN [pc |-> "try", idx |-> i + 1, retries_left |-> r, pass |-> 0]
    ELSE IF r >= 0 THEN [pc |-> "try", idx |-> 0, retries_left |-> r - 1, pass |-> 1]
    ELSE [pc |-> "done", idx |-> i, retries_left |-> r, pass |-> 0]

NextStep(n, i, r) ==
    IF i + 1 < n THEN [pc |-> "try", idx |-> i + 1, retries_left |-> r, pass |-> 0]
    ELSE IF r > 0 THEN [pc |-> "try", idx |-> 0, retries_left |-> r - 1, pass |-> 1]
    ELSE [pc |-> "done", idx |-> i, retries_left |-> r, pass |-> 0]

\* the success branch without its return: the loop goes on
AfterSuccessNoReturn(n, i, r) == NextStep(n, i, r)

\* the return after successful_downloads += 1
AfterSuccess(n, i, r) == [pc |-> "done", idx |-> i, retries_left |-> r, pass |-> 0]

\* the test of line 151 without its size check
SavedOkNoSize(body) == TRUE

\* os.path.exists(filename) and os.path.getsize(filename) > 0 after the
\* file was written with the given body
SavedOk(body) == body # "nothing"

FileOf(body) == IF body = "nothing" THEN "empty" ELSE "pdf"

\* PDClient.update_status: one more row for brnum
update_status(brnum, downloaded, cause) ==
    [status EXCEPT ![brnum] = [n |-> @.n + 1,
                               yes |-> @.yes + (IF downloaded THEN 1 ELSE 0),
                               cause |-> cause]]

\* a 200 application/pdf response whose file is non-empty: the file is
\* written, update_status(brnum, True, 200) appends its row; then
\* self.successful_downloads += 1: the load
FetchSuccess(t) ==
    /\ pc[t] = "try"
    /\ Netloc(Url(t)) # <<>>
    /\ \E body \in Bodies :
        /\ SavedOk(body)
        /\ files' = [files EXCEPT ![Report(t).brnum] = FileOf(body)]
    /\ status' = update_status(Report(t).brnum, TRUE, "200")
    /\ tmp' = [tmp EXCEPT ![t] = successful_downloads]
    /\ pc' = [pc EXCEPT ![t] = "succ_wr"]
    /\ hist' = Attempted(t, "ok")
    /\ UNCHANGED <<mainVars, idx, verify_ssl, retries_left, result, data,
                   sharedVars, faultsLeft, calls>>

\* self.successful_downloads += 1: the store, then the return
SuccessWrite(t) ==
    /\ pc[t] = "succ_wr"
    /\ successful_downloads' = tmp[t] + 1
    /\ calls' = [calls EXCEPT !.succIncs = @ + 1]
    /\ LET n == Len(urls_to_try(Report(t)))
           s == AfterSuccess(n, idx[t], retries_left[t])
       IN  /\ pc' = [pc EXCEPT ![t] = s.pc]
           /\ idx' = [idx EXCEPT ![t] = s.idx]
           /\ retries_left' = [retries_left EXCEPT ![t] = s.retries_left]
           /\ hist' = [hist EXCEPT ![t].passes = @ + s.pass]
    /\ tmp' = [tmp EXCEPT ![t] = 0]
    /\ UNCHANGED <<mainVars, verify_ssl, result, data, results, csv,
                   failed_downloads, status, files, faultsLeft>>

\* a 200 application/pdf response whose file ends up empty: the if of line
\* 151 fails, nothing is recorded and the loop goes on
FetchEmpty(t) ==
    /\ pc[t] = "try"
    /\ Netloc(Url(t)) # <<>>
    /\ CanFail("nothing")
    /\ faultsLeft' = Spend
    /\ \E body \in Bodies :
        /\ ~SavedOk(body)
        /\ files' = [files EXCEPT ![Report(t).brnum] = FileOf(body)]
    /\ LET n == Len(urls_to_try(Report(t)))
           s == NextStep(n, idx[t], retries_left[t])
       IN  /\ pc' = [pc EXCEPT ![t] = s.pc]
           /\ idx' = [idx EXCEPT ![t] = s.idx]
           /\ retries_left' = [retries_left EXCEPT ![t] = s.retries_left]
           /\ hist' = [Attempted(t, "empty") EXCEPT ![t].passes = @ + s.pass]
    /\ UNCHANGED <<mainVars, verify_ssl, localVars, sharedVars, status, calls>>

\* except SSLError with verify_ssl: download_report(report, verify_ssl=False,
\* retries_left=retries_left) and return: the loop starts again at the first
\* candidate, which is a new pass when the failure was at a later candidate
SSLRetry(t) ==
    /\ pc[t] = "try"
    /\ Netloc(Url(t)) # <<>>
    /\ verify_ssl[t]
    /\ CanFail("tls")
    /\ faultsLeft' = Spend
    /\ verify_ssl' = [verify_ssl EXCEPT ![t] = FALSE]
    /\ idx' = [idx EXCEPT ![t] = 0]
    /\ hist' = [Attempted(t, "tls") EXCEPT
                    ![t].passes = @ + (IF idx[t] > 0 THEN 1 ELSE 0)]
    /\ UNCHANGED <<mainVars, pc, retries_left, localVars, sharedVars, status,
                   files, calls>>

\* the file is opened before the Content-Type is looked at
FileAfterFailureTruncated(outcome, file) ==
    IF outcome = "html" THEN "empty" ELSE file

\* what a failed fetch leaves of <BRnum>.pdf: raise_for_status and the
\* Content-Type test raise before open(filename, "wb")
FileAfterFailure(outcome, file) == file

\* the other except clauses: handle_download_exception(report, e, key) is
\* called, which calls log_status_count(key): the test `result not in
\* self.results` and the load of self.results[result]
FetchFailure(t) ==
    /\ pc[t] = "try"
    /\ \E outcome \in Failures \cup {"invalid"} :
        /\ (outcome = "invalid") = (Netloc(Url(t)) = <<>>)
        /\ outcome = "tls" => ~verify_ssl[t]
        /\ outcome # "invalid" => CanFail(outcome)
        /\ faultsLeft' = IF outcome = "invalid" THEN faultsLeft ELSE Spend
        /\ result' = [result EXCEPT ![t] = KeyOf(outcome)]
        /\ tmp' = [tmp EXCEPT ![t] = results[KeyOf(outcome)]]
        /\ calls' = [calls EXCEPT !.recorded[KeyOf(outcome)] = @ + 1]
        /\ hist' = Attempted(t, outcome)
        /\ files' = [files EXCEPT ![Report(t).brnum] = FileAfterFailure(outcome, @)]
    /\ pc' = [pc EXCEPT ![t] = "log_wr"]
    /\ UNCHANGED <<mainVars, idx, verify_ssl, retries_left, data,
                   sharedVars, status>>

\* log_status_count: the store self.results[result] = 1 or += 1
LogWrite(t) ==
    /\ pc[t] = "log_wr"
    /\ results' = [results EXCEPT ![result[t]] = tmp[t] + 1]
    /\ tmp' = [tmp EXCEPT ![t] = 0]
    /\ pc' = [pc EXCEPT ![t] = "snap_begin"]
    /\ UNCHANGED <<mainVars, idx, verify_ssl, retries_left, result, data, csv,
                   successful_downloads, failed_downloads, status, files,
                   faultsLeft, hist, calls>>

KeysOf(counts) == {k \in Keys : counts[k] > 0}

\* log_status_count: the list comprehension over self.results.items() starts
SnapshotBegin(t) ==
    /\ pc[t] = "snap_begin"
    /\ data' = [data EXCEPT ![t] = results]
    /\ pc' = [pc EXCEPT ![t] = "snap_end"]
    /\ UNCHANGED <<mainVars, idx, verify_ssl, retries_left, result, tmp,
                   sharedVars, status, files, faultsLeft, hist, calls>>

\* how the comprehension can end when the dictionary has the keys now and
\* had the keys before: a key inserted by another thread while the iterator
\* is live makes its next step raise RuntimeError, which no except clause of
\* download_report catches
SnapshotEnds(before, now) ==
    IF KeysOf(before) = KeysOf(now) THEN {"csv"} ELSE {"csv", "raised"}

\* log_status_count: the list comprehension ends
SnapshotEnd(t) ==
    /\ pc[t] = "snap_end"
    /\ \E to \in SnapshotEnds(data[t], results) :
        /\ pc' = [pc EXCEPT ![t] = to]
        /\ data' = [data EXCEPT ![t] = IF to = "raised" THEN NoCounts ELSE @]
        /\ result' = [result EXCEPT ![t] = IF to = "raised" THEN "none" ELSE @]
    /\ UNCHANGED <<mainVars, idx, verify_ssl, retries_left, tmp,
                   sharedVars, status, files, faultsLeft, hist, calls>>

\* log_status_count: append_to_csv(log_file, data, 'w') rewrites the file
LogCsv(t) ==
    /\ pc[t] = "csv"
    /\ csv' = data[t]
    /\ data' = [data EXCEPT ![t] = NoCounts]
    /\ pc' = [pc EXCEPT ![t] = "upd"]
    /\ UNCHANGED <<mainVars, idx, verify_ssl, retries_left, result, tmp, results,
                   successful_downloads, failed_downloads, status, files,
                   faultsLeft, hist, calls>>

\* handle_download_exception: update_status(brnum, False, result) appends
\* its row; then self.failed_downloads += 1: the load
UpdateStatusFailed(t) ==
    /\ pc[t] = "upd"
    /\ status' = update_status(Report(t).brnum, FALSE, result[t])
    /\ tmp' = [tmp EXCEPT ![t] = failed_downloads]
    /\ result' = [result EXCEPT ![t] = "none"]
    /\ pc' = [pc EXCEPT ![t] = "fail_wr"]
    /\ UNCHANGED <<mainVars, idx, verify_ssl, retries_left, data,
                   sharedVars, files, faultsLeft, hist, calls>>

\* self.failed_downloads += 1: the store; the except clause ends and the
\* loop goes on
FailedWrite(t) ==
    /\ pc[t] = "fail_wr"
    /\ failed_downloads' = tmp[t] + 1
    /\ calls' = [calls EXCEPT !.failIncs = @ + 1]
    /\ LET n == Len(urls_to_try(Report(t)))
           s == NextStep(n, idx[t], retries_left[t])
       IN  /\ pc' = [pc EXCEPT ![t] = s.pc]
           /\ idx' = [idx EXCEPT ![t] = s.idx]
           /\ retries_left' = [retries_left EXCEPT ![t] = s.retries_left]
           /\ hist' = [hist EXCEPT ![t].passes = @ + s.pass]
    /\ tmp' = [tmp EXCEPT ![t] = 0]
    /\ UNCHANGED <<mainVars, verify_ssl, result, data, results, csv,
                   successful_downloads, status, files, faultsLeft>>

(***************************************************************************)
(* Main thread: the as_completed loop and the summary of download().       *)
(***************************************************************************)
\* the update is missing from the finally clause
ProgressUpdateNone(n) == n

\* finally: progress_bar.update(1)
ProgressUpdate(n) == n + 1

\* as_completed yields one more finished future: future.result() returns,
\* or its exception is logged; finally progress_bar.update(1)
Drain ==
    /\ mainpc = "pool"
    /\ yielded < Cardinality({t \in Tasks : Finished(t)})
    /\ yielded' = yielded + 1
    /\ completed' = ProgressUpdate(completed)
    /\ UNCHANGED <<rows, net, parsed, pdf_reports, mainpc, pc, idx, verify_ssl,
                   retries_left, localVars, sharedVars, status, files,
                   faultsLeft, hist, calls>>

\* the loop over as_completed is over, the executor is shut down and
\* logger.info reads the totals
Summary ==
    /\ mainpc = "pool"
    /\ yielded = Cardinality(Tasks)
    /\ mainpc' = "done"
    /\ UNCHANGED <<rows, net, parsed, pdf_reports, completed, yielded, pc, idx, verify_ssl,
                   retries_left, localVars, sharedVars, status, files,
                   faultsLeft, hist, calls>>

Next ==
    \/ ConstructReport
    \/ DropRow
    \/ Submit
    \/ \E t \in Tasks : Start(t)
    \/ \E t \in Tasks : FetchSuccess(t)
    \/ \E t \in Tasks : SuccessWrite(t)
    \/ \E t \in Tasks : FetchEmpty(t)
    \/ \E t \in Tasks : SSLRetry(t)
    \/ \E t \in Tasks : FetchFailure(t)
    \/ \E t \in Tasks : LogWrite(t)
    \/ \E t \in Tasks : SnapshotBegin(t)
    \/ \E t \in Tasks : SnapshotEnd(t)
    \/ \E t \in Tasks : LogCsv(t)
    \/ \E t \in Tasks : UpdateStatusFailed(t)
    \/ \E t \in Tasks : FailedWrite(t)
    \/ Drain
    \/ Summary

\* the pool: NumRows rows, NumWorkers threads, at most MaxFaults failures
Spec == Init /\ [][Next]_vars

\* one row of any shape, a network that may fail every time
SpecItem == InitItem /\ [][Next]_vars

\* one row of any shape; the thread that can take a step eventually takes
\* it, and every fetch returns (timeout=10)
SpecItemFair == InitItem /\ [][Next]_vars /\ WF_vars(Next)

\* two concurrent reports; every thread that can take a step eventually
\* takes one, and every fetch returns (timeout=10)
SpecRace == InitRace /\ [][Next]_vars /\ WF_vars(Next)

(***************************************************************************)
(* Properties.                                                             *)
(***************************************************************************)
Brnum(t) == Report(t).brnum

InPool == mainpc = "pool"

EngineDone == mainpc = "done"

\* a task is inside log_status_count
Recording(t) == pc[t] \in {"log_wr", "snap_begin", "snap_end", "csv"}

\* the validity rule of the specification's validator: after prepending the
\* default scheme when the URL has none, the URL has a network location
HasHost(url) ==
    Netloc(IF ContainsHttp(url) THEN url ELSE PrependScheme(url)) # <<>>

\* C1: when the engine has finished, downloaded_reports.csv holds exactly
\* one row for the BRnum of every report: none has two, none has none.
C1_OneOutcomePerItem ==
    EngineDone => \A t \in Tasks : status[Brnum(t)].n = 1

\* C2: at the final summary successful_downloads + failed_downloads equals
\* the number of reports that were processed.
C2_TotalsEqualItems ==
    EngineDone => successful_downloads + failed_downloads = Cardinality(Tasks)

\* C3: every parsed row whose primary URL has no host and whose backup URL
\* has one is constructed, and its first candidate URL is the backup.
C3_BackupSubstituted ==
    \A r \in 1..parsed :
        (~HasHost(rows[r].pdf) /\ Netloc(rows[r].backup) # <<>>)
        => \E k \in 1..Len(pdf_reports) :
              /\ pdf_reports[k].brnum = rows[r].id
              /\ urls_to_try(pdf_reports[k])[1] = rows[r].backup

\* C4: the attempt that follows a certificate failure with verification
\* enabled is on the same candidate URL with verification disabled.
C4_BypassSameUrl ==
    [][\A t \in DOMAIN hist :
          (/\ InPool
           /\ hist[t].last.res = "tls"
           /\ hist[t].last.verify
           /\ hist'[t].attempts = hist[t].attempts + 1)
          => (/\ hist'[t].last.i = hist[t].last.i
              /\ ~hist'[t].last.verify)]_vars

\* C5: whenever a Downloaded=Yes row is on record for a report, the file
\* <BRnum>.pdf exists and is not empty, from that moment to the end.
C5_YesImpliesFile ==
    \A t \in Tasks : status[Brnum(t)].yes > 0 => files[Brnum(t)] = "pdf"

\* C5 witness: the engine has finished and a report was downloaded by an
\* attempt that was not its first, over the file an earlier attempt left.
C5_Witness ==
    /\ EngineDone
    /\ \E t \in Tasks :
        /\ status[Brnum(t)].yes > 0
        /\ hist[t].attempts > 1
        /\ files[Brnum(t)] = "pdf"

\* C6: when all tasks have completed, the count stored for each result key
\* equals the number of log_status_count calls made with that key, and the
\* two totals equal the number of increments performed on them.
C6_NoLostUpdate ==
    EngineDone =>
        /\ \A k \in Keys : results[k] = calls.recorded[k]
        /\ failed_downloads = calls.failIncs
        /\ successful_downloads = calls.succIncs

\* C7: whenever no log_status_count call is in progress, the rows of
\* status_codes_count.csv equal the in-memory results mapping.
C7_SnapshotIsCurrent ==
    (\A t \in Tasks : ~Recording(t)) => csv = results

\* C8: once an attempt of a task has returned success, no further attempt
\* is made for it and no failure is recorded for it.
C8_SuccessIsTerminal ==
    [][\A t \in DOMAIN hist :
          (InPool /\ hist[t].last.res = "ok")
          => (/\ hist'[t].attempts = hist[t].attempts
              /\ status'[Brnum(t)] = status[Brnum(t)]
              /\ pc'[t] \in {"succ_wr", "done"})]_vars

\* C8 witness: a task is done after a success on its first candidate with a
\* backup candidate untried and retries left.
C8_Witness ==
    \E t \in Tasks :
        /\ pc[t] = "done"
        /\ hist[t].last.res = "ok"
        /\ Len(urls_to_try(Report(t))) = 2
        /\ idx[t] = 0
        /\ retries_left[t] > 0

\* C9: for every task the number of passes over its candidates started at
\* candidate 0 is at most 1 + the whole-item retry budget.
C9_RoundsBounded ==
    \A t \in Tasks : hist[t].passes <= 1 + DefaultRetries

\* C10: at most NumWorkers download_report calls execute at any moment, and
\* every report is dispatched exactly once.
C10_BoundedPool ==
    /\ Cardinality(Running) <= NumWorkers
    /\ \A t \in Tasks : hist[t].starts <= 1
    /\ \A t \in Tasks : pc[t] # "queued" => hist[t].starts = 1
    /\ EngineDone => \A t \in Tasks : hist[t].starts = 1

\* C10 witness: every worker thread is busy while a task waits in the queue.
C10_Witness ==
    /\ Cardinality(Running) = NumWorkers
    /\ \E t \in Tasks : pc[t] = "queued"

\* C11: the pool eventually terminates, and when it has terminated every
\* submitted task was started once and has returned or raised: none is
\* cancelled or left unfinished, also when another task raised.
C11_PoolTerminates ==
    /\ <>EngineDone
    /\ [](EngineDone => \A t \in Tasks :
                           /\ pc[t] \in {"done", "raised"}
                           /\ hist[t].starts = 1)

\* C11 witness: the pool has terminated after one task raised and another
\* task returned normally.
C11_Witness ==
    /\ EngineDone
    /\ \E t \in Tasks : pc[t] = "raised"
    /\ \E t \in Tasks : pc[t] = "done"

\* the number of handle_download_exception calls made so far: each of them
\* calls log_status_count once
HandlerCalls ==
    calls.recorded["404"] + calls.recorded["SSL Error"]
    + calls.recorded["Invalid Content-Type"]
    + calls.recorded["ConnectionError"] + calls.recorded["InvalidURL"]

\* C12: when the pool has terminated, the failed total was incremented once
\* for every failure handled to its end and once for every task whose call
\* raised, so the increments are as many as the handler calls made.
C12_RaisedIsCounted ==
    EngineDone => calls.failIncs = HandlerCalls

\* C13: a task that has returned after exactly two attempts, a certificate
\* failure on its first URL with verification on and a success of the retry
\* with verification off, has the single row Downloaded=Yes, a count of one
\* under the key "SSL Error" and one increment of the success total.
C13_BypassIsRecorded ==
    \A t \in Tasks :
        (/\ pc[t] = "done"
         /\ hist[t].attempts = 2
         /\ ~verify_ssl[t]
         /\ hist[t].last.res = "ok")
        => (/\ status[Brnum(t)].n = 1
            /\ status[Brnum(t)].yes = 1
            /\ results["SSL Error"] = 1
            /\ successful_downloads = 1)

\* C14: whenever no log_status_count call is in progress, the count under
\* the key 404 equals the number of attempts that ended in a 404 response,
\* and a task that has returned after a last attempt that ended in 404 has
\* Downloaded=No with cause 404 as its latest row.
C14_Counts404 ==
    /\ (\A t \in Tasks : ~Recording(t))
       => results["404"] = calls.recorded["404"]
    /\ \A t \in Tasks :
          (pc[t] = "done" /\ hist[t].last.res = "404")
          => (/\ status[Brnum(t)].yes = 0
              /\ status[Brnum(t)].cause = "404")

\* C15: every attempt made with certificate verification off directly
\* follows an attempt of the same task that ended in a certificate failure
\* with verification on; every other attempt is made with verification on.
C15_BypassOnlyOnce ==
    [][\A t \in DOMAIN hist :
          (/\ InPool
           /\ hist'[t].attempts = hist[t].attempts + 1
           /\ ~hist'[t].last.verify)
          => (hist[t].last.res = "tls" /\ hist[t].last.verify)]_vars

\* C16: a task that has returned after a last attempt that left an empty
\* file has a Downloaded=No row as its latest row and the failed total has
\* been incremented.
C16_EmptyFileIsFailure ==
    \A t \in Tasks :
        (pc[t] = "done" /\ hist[t].last.res = "empty")
        => (/\ status[Brnum(t)].n > 0
            /\ status[Brnum(t)].yes = 0
            /\ failed_downloads > 0)

\* the row has no usable backup: the cell is empty or "nan", or the URL has
\* no host even after the default scheme is prepended
NoValidBackup(url) == url = None \/ ContainsNan(url) \/ ~HasHost(url)

\* C17: every parsed row whose primary URL has no host and that has no
\* valid backup is in the work list with its primary URL unchanged, and
\* when the engine has finished its download_report call was started.
C17_NeverDropped ==
    \A r \in 1..parsed :
        (~HasHost(rows[r].pdf) /\ NoValidBackup(rows[r].backup))
        => \E k \in 1..Len(pdf_reports) :
              /\ pdf_reports[k].brnum = rows[r].id
              /\ pdf_reports[k].pdf_url = rows[r].pdf
              /\ EngineDone => hist[k].starts = 1

\* C18: an attempt that ends with a Content-Type other than application/pdf
\* changes no file and is recorded under "Invalid Content-Type"; a report
\* processed alone, without backup, whose attempts all ended that way has
\* no file and Downloaded=No with that cause when its task has returned.
C18_MismatchLeavesFolder ==
    /\ [][\A t \in DOMAIN hist :
             (/\ InPool
              /\ hist'[t].attempts = hist[t].attempts + 1
              /\ hist'[t].last.res = "html")
             => (/\ files' = files
                 /\ result'[t] = "Invalid Content-Type")]_vars
    /\ [](\A t \in Tasks :
             (/\ pc[t] = "done"
              /\ Cardinality(Tasks) = 1
              /\ Len(urls_to_try(Report(t))) = 1
              /\ hist[t].attempts > 0
              /\ hist[t].attempts = calls.recorded["Invalid Content-Type"])
             => (/\ files[Brnum(t)] = "none"
                 /\ status[Brnum(t)].yes = 0
                 /\ status[Brnum(t)].cause = "Invalid Content-Type"))

\* C18 witness: the engine has finished a report without backup whose four
\* attempts all ended with a wrong Content-Type.
C18_Witness ==
    /\ EngineDone
    /\ \E t \in Tasks :
        /\ Len(urls_to_try(Report(t))) = 1
        /\ hist[t].attempts = 1 + DefaultRetries
        /\ calls.recorded["Invalid Content-Type"] = 1 + DefaultRetries
        /\ files[Brnum(t)] = "none"
        /\ status[Brnum(t)].cause = "Invalid Content-Type"

\* C19: the progress count never decreases, grows by one exactly when the
\* loop over as_completed goes through one more future, never exceeds the
\* number of tasks that have returned or raised, and equals the number of
\* submitted tasks when the pool has terminated.
C19_ProgressCount ==
    /\ [][/\ completed' >= completed
          /\ completed' - completed = yielded' - yielded
          /\ completed' <= completed + 1]_vars
    /\ [](completed <= Cardinality({t \in Tasks : pc[t] \in {"done", "raised"}}))
    /\ [](EngineDone => completed = Cardinality(Tasks))

\* C19 witness: the pool has terminated with every task counted, one that
\* raised and one whose download succeeded among them.
C19_Witness ==
    /\ EngineDone
    /\ completed = Cardinality(Tasks)
    /\ \E t \in Tasks : pc[t] = "raised"
    /\ \E t \in Tasks : pc[t] = "done" /\ status[Brnum(t)].yes > 0

\* C20: every download_report call comes to its end, and it makes at most
\* n * (DefaultRetries + 2) attempts for a report with n candidate URLs:
\* 10 attempts for two candidates and 5 for one with the default budget 3.
C20_CallTerminates ==
    /\ <>(EngineDone /\ \A t \in Tasks : pc[t] = "done")
    /\ [](\A t \in Tasks :
             hist[t].attempts
                 <= Len(urls_to_try(Report(t))) * (DefaultRetries + 2))

\* C20 witness: a call for a report with two candidates has returned after
\* ten attempts (with the default budget).
C20_Witness ==
    \E t \in Tasks :
        /\ pc[t] = "done"
        /\ Len(urls_to_try(Report(t))) = 2
        /\ hist[t].attempts = 2 * (DefaultRetries + 2)

====
